---- MODULE Spec2Model ----
(***************************************************************************)
(* A model of errcat-go: the circuit breaker (breaker package), the        *)
(* breaker registry, the retrier, the timer, the Caller that composes them *)
(* and the Daemon.  Every component is modelled as the Go code computes    *)
(* it: pure                                                                *)
(* helpers are operators over records that mirror the Go structs, and the  *)
(* methods that run concurrently are split into actions at the points      *)
(* where the code takes or releases a lock or calls the user's callback.   *)
(***************************************************************************)
EXTENDS Integers, Sequences, FiniteSets, TLC

VARIABLES
    b,        \* the shared *Breaker: configuration, requests and state
    now,      \* the value the injected clock b.now() returns
    pc,       \* pc[p]: where goroutine p stands inside Breaker.Run
    loc,      \* loc[p]: the locals of goroutine p's Breaker.Run call
    streak,   \* history: consecutive failing callbacks returned while stored Closed
    openedAt, \* history: the clock value when the breaker last entered Open
    registry, \* the breaker Registry: a map from names to Breaker values
    got,      \* got[s]: what call site s holds from its last Registry.Get
    regErr,   \* what the last Registry.Register returned
    rin,      \* the Retrier and the callback's behaviour that Retrier.Run is given
    rout,     \* what Retrier.Run returned and how often it invoked the callback
    tmr,      \* the *Timer whose Run is called
    mpc,      \* where the goroutine that called Timer.Run stands
    wpc,      \* where the worker goroutine started by Timer.Run stands
    wval,     \* the error the worker sends (or is blocked sending) on done
    elapsed,  \* the time that has passed since time.NewTimer
    tret,     \* what Timer.Run returned, or the panic that left it
    hist,     \* history: when and how the callback given to Timer.Run ended
    bg,       \* the calls of Timer.Run so far and the workers earlier calls left behind
    clr,      \* the Caller: its retrier and fallback, and what the callbacks do
    counts,   \* how often Caller.Call invoked the user's callback
    fallbacks,\* how often Caller.Call invoked the fallback's callback
    cret,     \* what Caller.Call returned, or the panic that left it
    dmn,      \* the *Daemon: its client, its address, its registry and its context
    dcall,    \* dcall[p]: where goroutine p stands inside Daemon.Call, and its call
    wrk,      \* wrk[w]: the consumeCalls goroutine w and the batch it holds
    tele      \* history: the records dequeued, dispatched and transmitted so far

breakerVars == <<b, now, pc, loc, streak, openedAt>>
registryVars == <<registry, got, regErr>>
retrierVars == <<rin, rout>>
timerVars == <<tmr, mpc, wpc, wval, elapsed, tret, hist, bg>>
callerVars == <<clr, counts, fallbacks, cret>>
daemonVars == <<dmn, dcall, wrk, tele>>

vars == <<breakerVars, registryVars, retrierVars, timerVars, callerVars, daemonVars>>

(***************************************************************************)
(* Bounds of the model.                                                    *)
(***************************************************************************)
MaxNow == 3        \* the clock runs from 0 to MaxNow
MaxOption == 2     \* option values passed to the constructors: 1..MaxOption

\* The goroutines that call Breaker.Run concurrently.
Procs == {"g1", "g2"}

(***************************************************************************)
(* Errors.  A Go error is modelled by its identity and its message: the    *)
(* sentinels are compared by identity, user errors by their message.       *)
(***************************************************************************)
Nil == [id |-> "nil", msg |-> ""]
ErrBreakerOpen == [id |-> "ErrBreakerOpen", msg |-> "circuit breaker is open"]
UserErr(m) == [id |-> "user", msg |-> m]
Errorf(v) == [id |-> "fmt.Errorf", msg |-> v]

\* What one invocation of the user's callback does: it returns an error
\* (possibly nil) or it panics with a value.
Returns(e) == [kind |-> "return", err |-> e, val |-> ""]
Panics(v) == [kind |-> "panic", err |-> Nil, val |-> v]
Outcomes == {Returns(Nil), Returns(UserErr("oops")),
             Returns(UserErr("some other error")), Panics("oops")}

(***************************************************************************)
(* breaker: Status, State and the Breaker's helpers.                       *)
(***************************************************************************)
Closed == 0
HalfOpen == 1
Open == 2

defaultMaxFailures == 5
defaultMaxRequests == 1
defaultTimeout == 60

defaultIsFailure(err) == err # Nil

\* The isFailure predicates the model draws from: the default one and the
\* override of TestWithOverrides (err != nil && err.Error() == "oops").
IsFailureFns == {"default", "oopsOnly"}
ApplyIsFailure(fn, err) ==
    IF fn = "oopsOnly" THEN err # Nil /\ err.msg = "oops" ELSE defaultIsFailure(err)

\* isFailure := err != nil && b.isFailure(err)
IsFailing(br, err) == err # Nil /\ ApplyIsFailure(br.isFailure, err)

\* State{now: b.now}: the zero State, status Closed and the zero time.
ZeroState == [status |-> Closed, expiresAt |-> 0, Failures |-> 0, Successes |-> 0]

\* Mutant: the negation of After is dropped.
StatusAfter(s, t) ==
    IF s.status = Open /\ s.expiresAt > t THEN HalfOpen ELSE s.status

\* Mutant: Before instead of !After, so that now = expiresAt is still Open.
StatusBefore(s, t) ==
    IF s.status = Open /\ s.expiresAt < t THEN HalfOpen ELSE s.status

\* if s.status == Open && !s.expiresAt.After(s.now()) { return HalfOpen }; return s.status
Status(s, t) ==
    IF s.status = Open /\ ~(s.expiresAt > t) THEN HalfOpen ELSE s.status

failure(s) == [s EXCEPT !.Failures = @ + 1, !.Successes = 0]

success(s) == [s EXCEPT !.Successes = @ + 1, !.Failures = 0]

\* The With... options: a zero value is replaced by the default.
WithIsFailure(isFailure) == IF isFailure = "nil" THEN "default" ELSE isFailure
WithMaxHalfOpenRequests(maxRequests) ==
    IF maxRequests = 0 THEN defaultMaxRequests ELSE maxRequests
\* Mutant: WithMaxFailures keeps a zero value.
WithMaxFailuresRaw(maxFailures) == maxFailures

WithMaxFailures(maxFailures) ==
    IF maxFailures = 0 THEN defaultMaxFailures ELSE maxFailures
WithTimeout(timeout) == IF timeout = 0 THEN defaultTimeout ELSE timeout

\* New(opts...): opts is a function from the names of the options given to
\* their values; an option not given leaves the default in place.
New(opts) ==
    [isFailure   |-> IF "isFailure" \in DOMAIN opts
                     THEN WithIsFailure(opts["isFailure"]) ELSE "default",
     maxFailures |-> IF "maxFailures" \in DOMAIN opts
                     THEN WithMaxFailures(opts["maxFailures"]) ELSE defaultMaxFailures,
     maxRequests |-> IF "maxRequests" \in DOMAIN opts
                     THEN WithMaxHalfOpenRequests(opts["maxRequests"])
                     ELSE defaultMaxRequests,
     timeout     |-> IF "timeout" \in DOMAIN opts
                     THEN WithTimeout(opts["timeout"]) ELSE defaultTimeout,
     requests    |-> 0,
     state       |-> ZeroState]

\* Mutant: setState without b.requests = 0.
setStateKeepsRequests(br, status, t) ==
    [br EXCEPT !.state = [ZeroState EXCEPT
                            !.status = status,
                            !.expiresAt = IF status = Open THEN t + br.timeout ELSE 0]]

\* b.requests = 0; b.state = State{status: status}; if Open, expiresAt = now + timeout
setState(br, status, t) ==
    [br EXCEPT !.requests = 0,
               !.state = [ZeroState EXCEPT
                            !.status = status,
                            !.expiresAt = IF status = Open THEN t + br.timeout ELSE 0]]

\* Mutant: > instead of >=.
shouldOpenLate(br) == br.state.Failures > br.maxFailures

shouldOpen(br) == br.state.Failures >= br.maxFailures

\* canMakeHalfOpenRequest: the admission test and the increment, under the lock.
canMakeAllowed(br) == ~(br.requests >= br.maxRequests)

\* Mutant: b.requests++ ahead of the test.
canMakeCountsRefused(br) == [br EXCEPT !.requests = @ + 1]

canMakeHalfOpenRequest(br) ==
    IF canMakeAllowed(br) THEN [br EXCEPT !.requests = @ + 1] ELSE br

\* Mutant: safeRun recovers the panic and leaves err nil.
safeRunDropsPanic(outcome) == outcome.err

\* safeRun: the callback under recover(); a panic becomes fmt.Errorf("%v", r).
safeRun(outcome) ==
    IF outcome.kind = "panic" THEN Errorf(outcome.val) ELSE outcome.err

\* Mutant: the first half-open success closes the breaker.
handleErrorOneSuccess(br, state, err, t) ==
    LET isFailure == err # Nil /\ ApplyIsFailure(br.isFailure, err)
    IN  IF state.status = Closed /\ ~isFailure /\ state.Failures = 0
        THEN br
        ELSE CASE Status(br.state, t) = Closed ->
                    IF isFailure
                    THEN LET b1 == [br EXCEPT !.state = failure(@)]
                         IN  IF shouldOpen(b1) THEN setState(b1, Open, t) ELSE b1
                    ELSE [br EXCEPT !.state.Failures = 0]
               [] Status(br.state, t) = HalfOpen ->
                    IF isFailure
                    THEN setState(br, Open, t)
                    ELSE setState(br, Closed, t)
               [] OTHER -> br

\* handleError(state, err) at clock value t: the breaker after the accounting.
\* state is the snapshot Run took before admission.
handleError(br, state, err, t) ==
    LET isFailure == err # Nil /\ ApplyIsFailure(br.isFailure, err)
    IN  IF state.status = Closed /\ ~isFailure /\ state.Failures = 0
        THEN br
        ELSE CASE Status(br.state, t) = Closed ->
                    IF isFailure
                    THEN LET b1 == [br EXCEPT !.state = failure(@)]
                         IN  IF shouldOpen(b1) THEN setState(b1, Open, t) ELSE b1
                    ELSE [br EXCEPT !.state.Failures = 0]
               [] Status(br.state, t) = HalfOpen ->
                    IF isFailure
                    THEN setState(br, Open, t)
                    ELSE LET b1 == [br EXCEPT !.state = success(@)]
                         IN  IF b1.state.Successes = b1.maxRequests
                             THEN setState(b1, Closed, t) ELSE b1
               [] OTHER -> br

(***************************************************************************)
(* Breaker.Run by concurrent goroutines.                                   *)
(***************************************************************************)
IdleLoc == [state |-> ZeroState, status |-> Closed, o |-> Returns(Nil), err |-> Nil,
            counts |-> 0, ret |-> Nil, returned |-> FALSE]

\* The breakers the specifications start from: New with the options of
\* TestWithOverrides.
BreakersWith(optRange) ==
    {New([isFailure |-> f, maxFailures |-> mf, maxRequests |-> mr, timeout |-> to]) :
        f \in IsFailureFns \cup {"nil"}, mf \in optRange, mr \in optRange,
        to \in 1..MaxOption}

\* The variables of the other components, where a specification does not use them.
NoValue == [none |-> TRUE]
RegistryUnused == registry = NoValue /\ got = NoValue /\ regErr = NoValue
RetrierUnused == rin = NoValue /\ rout = NoValue
TimerUnused ==
    /\ tmr = [nil |-> TRUE, duration |-> 0] /\ mpc = NoValue /\ wpc = NoValue /\ wval = NoValue
    /\ elapsed = 0 /\ tret = NoValue /\ hist = NoValue /\ bg = NoValue
CallerUnused == clr = NoValue /\ counts = 0 /\ fallbacks = 0 /\ cret = NoValue
DaemonUnused == dmn = NoValue /\ dcall = NoValue /\ wrk = NoValue /\ tele = NoValue

InitRun(breakers) ==
    /\ b \in breakers
    /\ now = 0
    /\ pc = [p \in Procs |-> "idle"]
    /\ loc = [p \in Procs |-> IdleLoc]
    /\ streak = 0
    /\ openedAt = 0
    /\ RegistryUnused
    /\ RetrierUnused
    /\ TimerUnused
    /\ CallerUnused
    /\ DaemonUnused

\* state := b.State(); status := state.Status()
\* if status == Open { return ErrBreakerOpen }
\* A call observed Closed goes straight on to err = b.safeRun(cb).
RunObserve(p) ==
    /\ pc[p] = "idle"
    /\ LET state == b.state
           status == Status(state, now)
       IN  /\ loc' = [loc EXCEPT ![p] =
                        [IdleLoc EXCEPT
                           !.state = IF status = Open THEN ZeroState ELSE state,
                           !.status = status,
                           !.counts = IF status = Closed THEN 1 ELSE 0,
                           !.ret = IF status = Open THEN ErrBreakerOpen ELSE Nil,
                           !.returned = (status = Open)]]
           /\ pc' = [pc EXCEPT ![p] = CASE status = Open -> "idle"
                                        [] status = HalfOpen -> "canMake"
                                        [] OTHER -> "cb"]
    /\ UNCHANGED <<b, now, streak, openedAt, registryVars, retrierVars, timerVars, callerVars, daemonVars>>

\* if status == HalfOpen && !b.canMakeHalfOpenRequest() { return ErrBreakerOpen }
\* An admitted call goes on to err = b.safeRun(cb).
RunCanMake(p) ==
    /\ pc[p] = "canMake"
    /\ b' = canMakeHalfOpenRequest(b)
    /\ IF canMakeAllowed(b)
       THEN /\ pc' = [pc EXCEPT ![p] = "cb"]
            /\ loc' = [loc EXCEPT ![p].counts = @ + 1]
       ELSE /\ pc' = [pc EXCEPT ![p] = "idle"]
            /\ loc' = [loc EXCEPT ![p].ret = ErrBreakerOpen, ![p].returned = TRUE,
                                  ![p].state = ZeroState]
    /\ UNCHANGED <<now, streak, openedAt, registryVars, retrierVars, timerVars, callerVars, daemonVars>>

\* The callback returns or panics; safeRun turns the outcome into err.
CbDone(p, o) ==
    /\ pc[p] = "cb"
    /\ loc' = [loc EXCEPT ![p].o = o, ![p].err = safeRun(o)]
    /\ pc' = [pc EXCEPT ![p] = "handleError"]
    /\ UNCHANGED <<b, now, openedAt, registryVars, retrierVars, timerVars, callerVars, daemonVars>>

RunCbDone(p) ==
    /\ \E o \in Outcomes : CbDone(p, o)
    /\ UNCHANGED streak

\* b.handleError(state, err); return err
RunHandleError(p) ==
    /\ pc[p] = "handleError"
    /\ b' = handleError(b, loc[p].state, loc[p].err, now)
    /\ openedAt' = CASE b'.state.status # Open -> 0
                     [] b.state.status = Closed -> now
                     [] b' # b /\ loc[p].err # Nil
                          /\ ApplyIsFailure(b.isFailure, loc[p].err) -> now
                     [] OTHER -> openedAt
    /\ pc' = [pc EXCEPT ![p] = "idle"]
    /\ loc' = [loc EXCEPT ![p].ret = loc[p].err, ![p].returned = TRUE,
                          ![p].state = ZeroState]
    /\ UNCHANGED <<now, streak, registryVars, retrierVars, timerVars, callerVars, daemonVars>>

\* The injected clock moves on.
Tick ==
    /\ now < MaxNow
    /\ now' = now + 1
    /\ UNCHANGED <<b, pc, loc, streak, openedAt, registryVars, retrierVars, timerVars, callerVars, daemonVars>>

InitBreaker == InitRun(BreakersWith(1..MaxOption))

NextBreaker ==
    \/ \E p \in Procs : RunObserve(p)
    \/ \E p \in Procs : RunCanMake(p)
    \/ \E p \in Procs : RunCbDone(p)
    \/ \E p \in Procs : RunHandleError(p)
    \/ Tick

SpecBreaker == InitBreaker /\ [][NextBreaker]_vars

\* Every goroutine keeps calling Run, every callback ends and a goroutine
\* that can take the lock gets it; nothing obliges the clock to move.
SpecBreakerFair ==
    /\ SpecBreaker
    /\ \A p \in Procs :
          /\ WF_vars(RunObserve(p)) /\ WF_vars(RunCanMake(p))
          /\ WF_vars(RunCbDone(p)) /\ WF_vars(RunHandleError(p))

(***************************************************************************)
(* Breaker.Run called by one goroutine, one call after another.  streak    *)
(* counts the callbacks that failed in a row while the breaker was Closed. *)
(***************************************************************************)
SeqProc == "g1"

SeqCbDone ==
    \E o \in Outcomes :
      /\ CbDone(SeqProc, o)
      /\ streak' = IF /\ b.state.status = Closed
                      /\ safeRun(o) # Nil
                      /\ ApplyIsFailure(b.isFailure, safeRun(o))
                   THEN streak + 1 ELSE 0

InitBreakerSeq == InitRun(BreakersWith(0..MaxOption))

NextBreakerSeq ==
    \/ RunObserve(SeqProc)
    \/ RunCanMake(SeqProc)
    \/ SeqCbDone
    \/ RunHandleError(SeqProc)
    \/ Tick

SpecBreakerSeq == InitBreakerSeq /\ [][NextBreakerSeq]_vars

(***************************************************************************)
(* Breaker.Run by one goroutine, as a function: the breaker br at clock    *)
(* value t runs a callback whose outcome is o.  The result is the breaker  *)
(* afterwards, what Run returns (or the panic that leaves it) and how      *)
(* often the callback was invoked.                                         *)
(***************************************************************************)
NilBreaker == [nil |-> TRUE]

Run(br, o, t) ==
    IF br = NilBreaker
    THEN [b |-> br, out |-> o, counts |-> 1]
    ELSE LET state == br.state
             status == Status(state, t)
         IN  IF status = Open \/ (status = HalfOpen /\ ~canMakeAllowed(br))
             THEN [b |-> br, out |-> Returns(ErrBreakerOpen), counts |-> 0]
             ELSE LET b1 == IF status = HalfOpen THEN canMakeHalfOpenRequest(br) ELSE br
                      err == safeRun(o)
                  IN  [b |-> handleError(b1, state, err, t),
                       out |-> Returns(err), counts |-> 1]

(***************************************************************************)
(* breaker.Registry: a map from names to Breaker values (not pointers).    *)
(* Register stores a copy of the Breaker it is given and Get returns a     *)
(* copy of the stored one; a call site runs its callbacks through the      *)
(* Breaker value it holds.                                                 *)
(***************************************************************************)
Names == {"mysql", "google"}
Sites == {"s1", "s2"}

NewRegistry == [n \in {} |-> NoValue]

\* if _, ok := r[name]; ok { return fmt.Errorf(...) }; r[name] = b; return nil
RegisterErr(r, name) ==
    IF name \in DOMAIN r
    THEN UserErr("breaker already registered with the name of " \o name)
    ELSE Nil
\* Mutant: Register that stores the Breaker under a name already present.
RegisterOverwrite(r, name, br) ==
    [n \in DOMAIN r \cup {name} |-> IF n = name THEN br ELSE r[n]]
Register(r, name, br) ==
    IF name \in DOMAIN r
    THEN r
    ELSE [n \in DOMAIN r \cup {name} |-> IF n = name THEN br ELSE r[n]]

\* b, ok := r[name]; return b, ok.  A missing name yields the zero Breaker.
ZeroBreaker == [isFailure |-> "nil", maxFailures |-> 0, maxRequests |-> 0,
                timeout |-> 0, requests |-> 0, state |-> ZeroState]
Get(r, name) ==
    IF name \in DOMAIN r
    THEN [b |-> r[name], ok |-> TRUE, name |-> name]
    ELSE [b |-> ZeroBreaker, ok |-> FALSE, name |-> name]

\* The breakers the call sites register: New(WithMaxFailures(n), WithTimeout(1)).
RegistryBreakers == {New([maxFailures |-> mf, timeout |-> 1]) : mf \in 1..MaxOption}

InitRegistry ==
    /\ registry = NewRegistry
    /\ got = [s \in Sites |-> Get(NewRegistry, "mysql")]
    /\ regErr = Nil
    /\ b = NoValue /\ now = 0 /\ pc = NoValue /\ loc = NoValue
    /\ streak = 0 /\ openedAt = 0
    /\ RetrierUnused
    /\ TimerUnused
    /\ CallerUnused
    /\ DaemonUnused

RegistryRegister ==
    /\ \E name \in Names, br \in RegistryBreakers :
         /\ registry' = Register(registry, name, br)
         /\ regErr' = RegisterErr(registry, name)
    /\ UNCHANGED <<got, breakerVars, retrierVars, timerVars, callerVars, daemonVars>>

RegistryGet ==
    /\ \E s \in Sites, name \in Names : got' = [got EXCEPT ![s] = Get(registry, name)]
    /\ UNCHANGED <<registry, regErr, breakerVars, retrierVars, timerVars, callerVars, daemonVars>>

\* A call site runs a callback through the breaker it got: b.Run(cb).
RegistryRun ==
    /\ \E s \in Sites, o \in Outcomes :
         /\ got[s].ok
         /\ got' = [got EXCEPT ![s].b = Run(got[s].b, o, now).b]
    /\ UNCHANGED <<registry, regErr, breakerVars, retrierVars, timerVars, callerVars, daemonVars>>

NextRegistry == RegistryRegister \/ RegistryGet \/ RegistryRun

SpecRegistry == InitRegistry /\ [][NextRegistry]_vars

(***************************************************************************)
(* retrier: Retrier.Run as a function of the retrier and of what the       *)
(* callback does at its first, second, ... invocation.                     *)
(***************************************************************************)
MaxAttempts == 3   \* maxAttempts options run from 0 to MaxAttempts

defaultMaxAttempts == 1

defaultIsRetriable(err) == err # Nil

\* The isRetriable predicates the model draws from: the default one and the
\* override of the tests (err == nil || err.Error() != "perm err").
IsRetriableFns == {"default", "notPermErr"}
ApplyIsRetriable(fn, err) ==
    IF fn = "notPermErr" THEN err = Nil \/ err.msg # "perm err"
    ELSE defaultIsRetriable(err)

WithIsRetriable(isRetriable) == IF isRetriable = "nil" THEN "default" ELSE isRetriable
WithMaxAttempts(maxAttempts) ==
    IF maxAttempts = 0 THEN defaultMaxAttempts ELSE maxAttempts

NewRetrier(opts) ==
    [isRetriable |-> IF "isRetriable" \in DOMAIN opts
                     THEN WithIsRetriable(opts["isRetriable"]) ELSE "default",
     maxAttempts |-> IF "maxAttempts" \in DOMAIN opts
                     THEN WithMaxAttempts(opts["maxAttempts"]) ELSE defaultMaxAttempts]

NilRetrier == [nil |-> TRUE]

\* What the callback does at its k-th invocation; past the end of the script
\* it keeps doing what it did last.
OutcomeAt(outs, k) == IF k \in DOMAIN outs THEN outs[k] ELSE outs[Len(outs)]

\* Mutant: <= instead of < in the loop condition.
RECURSIVE retrierLoopOneMore(_, _, _, _)
retrierLoopOneMore(r, outs, i, err) ==
    IF ~(i <= r.maxAttempts)
    THEN [out |-> Returns(err), counts |-> i]
    ELSE LET o == OutcomeAt(outs, i + 1)
         IN  IF o.kind = "panic"
             THEN [out |-> o, counts |-> i + 1]
             ELSE IF o.err = Nil \/ ~ApplyIsRetriable(r.isRetriable, o.err)
                  THEN [out |-> Returns(o.err), counts |-> i + 1]
                  ELSE retrierLoopOneMore(r, outs, i + 1, o.err)

\* Mutant: the loop only stops early on a nil error.
RECURSIVE retrierLoopRetryAll(_, _, _, _)
retrierLoopRetryAll(r, outs, i, err) ==
    IF ~(i < r.maxAttempts)
    THEN [out |-> Returns(err), counts |-> i]
    ELSE LET o == OutcomeAt(outs, i + 1)
         IN  IF o.kind = "panic"
             THEN [out |-> o, counts |-> i + 1]
             ELSE IF o.err = Nil
                  THEN [out |-> Returns(o.err), counts |-> i + 1]
                  ELSE retrierLoopRetryAll(r, outs, i + 1, o.err)

\* for i := uint(0); i < r.maxAttempts; i++ { err = cb(); if err == nil ||
\* !r.isRetriable(err) { return err } }; return err
\* from iteration i on, err being the error of the attempt before.  A panic
\* of the callback leaves Run: Run has no recover.
RECURSIVE retrierLoop(_, _, _, _)
retrierLoop(r, outs, i, err) ==
    IF ~(i < r.maxAttempts)
    THEN [out |-> Returns(err), counts |-> i]
    ELSE LET o == OutcomeAt(outs, i + 1)
         IN  IF o.kind = "panic"
             THEN [out |-> o, counts |-> i + 1]
             ELSE IF o.err = Nil \/ ~ApplyIsRetriable(r.isRetriable, o.err)
                  THEN [out |-> Returns(o.err), counts |-> i + 1]
                  ELSE retrierLoop(r, outs, i + 1, o.err)

\* if r == nil { return cb() }; otherwise the loop.
RetrierRun(r, outs) ==
    IF r = NilRetrier
    THEN [out |-> OutcomeAt(outs, 1), counts |-> 1]
    ELSE retrierLoop(r, outs, 0, Nil)

RetrierOutcomes == {Returns(Nil), Returns(UserErr("oops")),
                    Returns(UserErr("perm err")), Panics("oops")}

Retriers ==
    {NilRetrier} \cup
    {NewRetrier([isRetriable |-> f, maxAttempts |-> n]) :
        f \in IsRetriableFns \cup {"nil"}, n \in 0..MaxAttempts}

InitRetrier ==
    /\ rin \in [r : Retriers, outs : [1..MaxAttempts -> RetrierOutcomes]]
    /\ rout = NoValue
    /\ b = NoValue /\ now = 0 /\ pc = NoValue /\ loc = NoValue
    /\ streak = 0 /\ openedAt = 0
    /\ RegistryUnused
    /\ TimerUnused
    /\ CallerUnused
    /\ DaemonUnused

RetrierCall ==
    /\ rout = NoValue
    /\ rout' = RetrierRun(rin.r, rin.outs)
    /\ UNCHANGED <<rin, breakerVars, registryVars, timerVars, callerVars, daemonVars>>

NextRetrier == RetrierCall

SpecRetrier == InitRetrier /\ [][NextRetrier]_vars

(***************************************************************************)
(* timer: Timer.Run.  The caller's goroutine starts a worker goroutine     *)
(* that runs the callback and sends its error on the unbuffered channel    *)
(* done, and waits in a select for done or for the time.Timer.  elapsed    *)
(* counts the time since the timer was created; the time.Timer is ready    *)
(* from elapsed = duration on and wakes the waiting goroutine then, so     *)
(* time does not pass beyond the deadline while it waits.                  *)
(***************************************************************************)
MaxDuration == 2   \* timer durations run from -1 to MaxDuration
MaxRuns == 2       \* calls of Timer.Run on one Timer

ErrTimeout == [id |-> "ErrTimeout", msg |-> "timeout exceeded"]

\* A *Timer: nil, or &Timer{duration: d}.
NilTimer == [nil |-> TRUE, duration |-> 0]
NewTimer(d) == [nil |-> FALSE, duration |-> d]
Timers == {NilTimer} \cup {NewTimer(d) : d \in (-1)..MaxDuration}

\* if t == nil || t.duration <= time.Duration(0) { return cb() }
TimerDisabled(t) == t.nil \/ t.duration <= 0

\* Mutant: the worker drops the callback's error.
workerSendsNil(o) == Nil

\* What the worker sends on done: cb()'s error, or after a panic the
\* recovered value as fmt.Errorf("%v", r).
workerSends(o) == IF o.kind = "panic" THEN Errorf(o.val) ELSE o.err

NoHist == [done |-> FALSE, at |-> 0, late |-> FALSE, o |-> Returns(Nil)]

InitTimerVars(timers) ==
    /\ tmr \in timers
    /\ mpc = "idle"
    /\ wpc = "none"
    /\ wval = Nil
    /\ elapsed = 0
    /\ tret = NoValue
    /\ hist = NoHist
    /\ bg = [runs |-> 0, running |-> 0, blocked |-> 0]

\* The workers left behind when Run is called again: one still in its
\* callback keeps running, one blocked sending on done stays blocked.
LeftBehind ==
    [bg EXCEPT !.runs = @ + 1,
               !.running = @ + (IF wpc = "cb" THEN 1 ELSE 0),
               !.blocked = @ + (IF wpc = "send" THEN 1 ELSE 0)]

\* return cb(): the callback runs on the caller's goroutine, o is what it does.
TimerRunSync(o) ==
    /\ mpc \in {"idle", "done"}
    /\ bg.runs < MaxRuns
    /\ TimerDisabled(tmr)
    /\ mpc' = "done"
    /\ tret' = o
    /\ hist' = [done |-> TRUE, at |-> 0, late |-> FALSE, o |-> o]
    /\ bg' = LeftBehind
    /\ wpc' = "none"
    /\ wval' = Nil
    /\ UNCHANGED <<tmr, elapsed>>

\* timer := time.NewTimer(t.duration); done := make(chan error); go func() {...}()
\* and the caller's goroutine enters the select.
TimerRunStart ==
    /\ mpc \in {"idle", "done"}
    /\ bg.runs < MaxRuns
    /\ ~TimerDisabled(tmr)
    /\ mpc' = "select"
    /\ wpc' = "cb"
    /\ wval' = Nil
    /\ elapsed' = 0
    /\ tret' = NoValue
    /\ hist' = NoHist
    /\ bg' = LeftBehind
    /\ UNCHANGED tmr

\* Time passes while the caller's goroutine waits and the deadline is ahead.
TimerTick ==
    /\ mpc = "select"
    /\ elapsed < tmr.duration
    /\ elapsed' = elapsed + 1
    /\ UNCHANGED <<tmr, mpc, wpc, wval, tret, hist, bg>>

\* case <-timer.C: return ErrTimeout
TimerSelectTimeout ==
    /\ mpc = "select"
    /\ elapsed >= tmr.duration
    /\ mpc' = "done"
    /\ tret' = Returns(ErrTimeout)
    /\ UNCHANGED <<tmr, wpc, wval, elapsed, hist, bg>>

\* The callback ends in the worker (o is what it did) and the worker sends on
\* done.  A caller waiting in the select takes it: case err := <-done: return
\* err.  Once the caller is gone nobody receives and the worker stays blocked.
TimerWorkerDone(o) ==
    /\ wpc = "cb"
    /\ wval' = workerSends(o)
    /\ hist' = [done |-> TRUE, at |-> elapsed, late |-> (mpc # "select"), o |-> o]
    /\ IF mpc = "select"
       THEN /\ mpc' = "done"
            /\ tret' = Returns(workerSends(o))
            /\ wpc' = "exit"
       ELSE /\ wpc' = "send"
            /\ UNCHANGED <<mpc, tret>>
    /\ UNCHANGED <<tmr, elapsed, bg>>

\* The callback of a worker that an earlier call left behind ends: its send
\* on done finds no receiver.
TimerLateDone ==
    /\ bg.running > 0
    /\ bg' = [bg EXCEPT !.running = @ - 1, !.blocked = @ + 1]
    /\ UNCHANGED <<tmr, mpc, wpc, wval, elapsed, tret, hist>>

InitTimer ==
    /\ InitTimerVars(Timers)
    /\ b = NoValue /\ now = 0 /\ pc = NoValue /\ loc = NoValue
    /\ streak = 0 /\ openedAt = 0
    /\ RegistryUnused
    /\ RetrierUnused
    /\ CallerUnused
    /\ DaemonUnused

TimerSync ==
    /\ \E o \in Outcomes : TimerRunSync(o)
    /\ UNCHANGED <<breakerVars, registryVars, retrierVars, callerVars, daemonVars>>

TimerStart ==
    /\ TimerRunStart
    /\ UNCHANGED <<breakerVars, registryVars, retrierVars, callerVars, daemonVars>>

TimerTime ==
    /\ TimerTick
    /\ UNCHANGED <<breakerVars, registryVars, retrierVars, callerVars, daemonVars>>

TimerTimeout ==
    /\ TimerSelectTimeout
    /\ UNCHANGED <<breakerVars, registryVars, retrierVars, callerVars, daemonVars>>

TimerWorker ==
    /\ \E o \in Outcomes : TimerWorkerDone(o)
    /\ UNCHANGED <<breakerVars, registryVars, retrierVars, callerVars, daemonVars>>

TimerLate ==
    /\ TimerLateDone
    /\ UNCHANGED <<breakerVars, registryVars, retrierVars, callerVars, daemonVars>>

NextTimer ==
    TimerSync \/ TimerStart \/ TimerTime \/ TimerTimeout \/ TimerWorker \/ TimerLate

\* Time passes and a ready time.Timer wakes the goroutine waiting on it; the
\* callback is under no obligation to end.
SpecTimer ==
    InitTimer /\ [][NextTimer]_vars /\ WF_vars(TimerTime) /\ WF_vars(TimerTimeout)

(***************************************************************************)
(* fallback: a Fallback holds the predicate that decides whether an error  *)
(* triggers it and the function to call then; call is what that function   *)
(* does when invoked.                                                      *)
(***************************************************************************)
defaultUseFallback(err) == err # Nil

\* The useFallback predicates the model draws from: the default one, the
\* override of the tests (err != nil && err.Error() != "no fallback"), and
\* one that does not look at its argument (func(error) bool { return true }).
UseFallbackFns == {"default", "notNoFallback", "always"}
ApplyUseFallback(fn, err) ==
    CASE fn = "notNoFallback" -> err # Nil /\ err.msg # "no fallback"
      [] fn = "always" -> TRUE
      [] OTHER -> defaultUseFallback(err)

WithUseFallback(useFallback) == IF useFallback = "nil" THEN "default" ELSE useFallback

\* A nil FallbackFn.
NilFn == [kind |-> "nil", err |-> Nil, val |-> ""]

\* if call == nil { call = func() error { return nil } }
NewFallback(call, opts) ==
    [nil |-> FALSE,
     useFallback |-> IF "useFallback" \in DOMAIN opts
                     THEN WithUseFallback(opts["useFallback"]) ELSE "default",
     call |-> IF call = NilFn THEN Returns(Nil) ELSE call]

NilFallback == [nil |-> TRUE, useFallback |-> "default", call |-> Returns(Nil)]

\* Mutant: UseFallback without the test for a nil Fallback.
UseFallbackNoNilTest(f, err) == ApplyUseFallback(f.useFallback, err)

\* Mutant: the fallback is consulted on success instead of on failure.
UseFallbackOnSuccess(f, err) == ~f.nil /\ ~ApplyUseFallback(f.useFallback, err)

\* return f != nil && f.useFallback(err)
UseFallback(f, err) == ~f.nil /\ ApplyUseFallback(f.useFallback, err)

\* if f == nil { return nil }; return f.call()
FallbackCall(f) == IF f.nil THEN Returns(Nil) ELSE f.call

(***************************************************************************)
(* errcat.Caller: Call runs the callback through the retrier, inside the   *)
(* breaker, inside the timer, and consults the fallback with the error     *)
(* that comes out.  clr holds the retrier, the fallback and the script of  *)
(* the callback; the breaker the Caller points to is b and its timer tmr.  *)
(***************************************************************************)
CallerOutcomes == RetrierOutcomes \cup {Returns(UserErr("no fallback"))}

\* The callback does the same at every invocation, or fails a number of
\* times before it does.
CallerScripts ==
    {[i \in 1..MaxAttempts |-> o] : o \in CallerOutcomes} \cup
    {[i \in 1..MaxAttempts |-> IF i <= k THEN Returns(UserErr("oops")) ELSE o] :
        k \in 1..(MaxAttempts - 1), o \in CallerOutcomes}

CallerRetriers ==
    {NilRetrier} \cup
    {NewRetrier([isRetriable |-> f, maxAttempts |-> n]) :
        f \in IsRetriableFns, n \in 1..MaxAttempts}

Fallbacks ==
    {NilFallback} \cup
    {NewFallback(call, [useFallback |-> f]) :
        call \in {NilFn, Returns(UserErr("fallback oops"))},
        f \in UseFallbackFns \cup {"nil"}}

\* The breakers a Caller is given: new ones, and ones that have already seen
\* a failing call.
FreshBreakers ==
    {New([maxFailures |-> mf, timeout |-> to]) : mf \in 1..MaxOption, to \in 1..MaxOption}
CallerBreakers ==
    {NilBreaker} \cup FreshBreakers \cup
    {Run(br, Returns(UserErr("oops")), 0).b : br \in FreshBreakers}

NoSnapshot == [taken |-> FALSE, state |-> ZeroState, status |-> Closed]
Snapshot(br, t) ==
    [taken |-> TRUE, state |-> br.state, status |-> Status(br.state, t)]

\* Mutant: the retrier wraps the breaker, so that every attempt goes through
\* Breaker.Run on its own.
RECURSIVE retryOutside(_, _, _, _, _)
retryOutside(c, br, t, i, n) ==
    LET res == Run(br, OutcomeAt(c.outs, i), t)
        last == \/ i >= (IF c.retrier = NilRetrier THEN 1 ELSE c.retrier.maxAttempts)
                \/ res.out.kind = "panic"
                \/ res.out.err = Nil
                \/ ~ApplyIsRetriable(c.retrier.isRetriable, res.out.err)
    IN  IF last THEN [b |-> res.b, out |-> res.out, counts |-> n + res.counts]
        ELSE retryOutside(c, res.b, t, i + 1, n + res.counts)
CallClosureRetrierOutside(c, br, t) == retryOutside(c, br, t, 1, 0)

\* c.breaker.Run(func() error { return c.retrier.Run(func() error { return cb() }) })
\* run to its end at time t: the breaker afterwards, what comes out and how
\* often cb was invoked.
CallClosure(c, br, t) ==
    LET rr == RetrierRun(c.retrier, c.outs)
        res == Run(br, rr.out, t)
    IN  [b |-> res.b, out |-> res.out,
         counts |-> IF res.counts = 0 THEN 0 ELSE rr.counts]

InitCaller ==
    /\ clr \in [retrier : CallerRetriers, fallback : Fallbacks, outs : CallerScripts]
    /\ counts = 0 /\ fallbacks = 0 /\ cret = NoValue
    /\ b \in CallerBreakers
    /\ now = 0
    /\ pc = NoValue
    /\ loc = NoSnapshot
    /\ streak = 0 /\ openedAt = 0
    /\ RegistryUnused
    /\ RetrierUnused
    /\ DaemonUnused
    /\ InitTimerVars(Timers)

\* c.timer.Run with a nil Timer or a duration <= 0: the closure runs to its
\* end on the caller's goroutine.
CallSync ==
    /\ cret = NoValue
    /\ bg.runs = 0
    /\ LET res == CallClosure(clr, b, now)
       IN  /\ TimerRunSync(res.out)
           /\ b' = res.b
           /\ counts' = counts + res.counts
    /\ loc' = IF b = NilBreaker THEN loc ELSE Snapshot(b, now)
    /\ UNCHANGED <<now, pc, streak, openedAt, clr, fallbacks, cret,
                   registryVars, retrierVars, daemonVars>>

\* c.timer.Run with a positive duration starts the worker and waits.
CallStart ==
    /\ cret = NoValue
    /\ bg.runs = 0
    /\ TimerRunStart
    /\ UNCHANGED <<breakerVars, registryVars, retrierVars, callerVars, daemonVars>>

\* Time passes for the waiting goroutine and for the breaker's clock.
CallTime ==
    /\ TimerTick
    /\ now' = now + 1
    /\ UNCHANGED <<b, pc, loc, streak, openedAt, registryVars, retrierVars, callerVars, daemonVars>>

\* Mutant: the timer runs inside Breaker.Run, which accounts for ErrTimeout.
CallTimeoutInsideBreaker ==
    /\ TimerSelectTimeout
    /\ b' = IF b = NilBreaker \/ ~loc.taken THEN b
            ELSE handleError(b, loc.state, ErrTimeout, now)
    /\ UNCHANGED <<now, pc, loc, streak, openedAt, registryVars, retrierVars,
                   callerVars, daemonVars>>

CallTimeout ==
    /\ TimerSelectTimeout
    /\ UNCHANGED <<breakerVars, registryVars, retrierVars, callerVars, daemonVars>>

\* The worker enters Breaker.Run: state := b.State(); status := state.Status()
\* and the breaker lets the call through.
CallAdmit ==
    /\ wpc = "cb"
    /\ b # NilBreaker
    /\ ~loc.taken
    /\ LET s == Snapshot(b, now)
       IN  /\ ~(s.status = Open \/ (s.status = HalfOpen /\ ~canMakeAllowed(b)))
           /\ loc' = s
           /\ b' = IF s.status = HalfOpen THEN canMakeHalfOpenRequest(b) ELSE b
    /\ UNCHANGED <<now, pc, streak, openedAt, registryVars, retrierVars,
                   timerVars, callerVars, daemonVars>>

\* The worker enters Breaker.Run and the breaker rejects the call: the
\* closure ends with ErrBreakerOpen and cb is not invoked.
CallReject ==
    /\ wpc = "cb"
    /\ b # NilBreaker
    /\ ~loc.taken
    /\ LET s == Snapshot(b, now)
       IN  /\ s.status = Open \/ (s.status = HalfOpen /\ ~canMakeAllowed(b))
           /\ loc' = s
    /\ TimerWorkerDone(Returns(ErrBreakerOpen))
    /\ UNCHANGED <<b, now, pc, streak, openedAt, registryVars, retrierVars, callerVars, daemonVars>>

\* The retrier's loop ends in the worker: Breaker.Run recovers a panic and
\* accounts for the error, and the closure ends.  Without a breaker the
\* retrier's outcome is the closure's.
CallWorker ==
    /\ wpc = "cb"
    /\ b = NilBreaker \/ loc.taken
    /\ LET rr == RetrierRun(clr.retrier, clr.outs)
       IN  /\ counts' = counts + rr.counts
           /\ IF b = NilBreaker
              THEN /\ TimerWorkerDone(rr.out)
                   /\ b' = b
              ELSE /\ TimerWorkerDone(Returns(safeRun(rr.out)))
                   /\ b' = handleError(b, loc.state, safeRun(rr.out), now)
    /\ UNCHANGED <<now, pc, loc, streak, openedAt, clr, fallbacks, cret,
                   registryVars, retrierVars, daemonVars>>

\* if c.fallback.UseFallback(err) { return c.fallback.Call() }; return err
\* A panic that left timer.Run leaves Call.
CallFallback ==
    /\ mpc = "done"
    /\ cret = NoValue
    /\ IF tret.kind = "return" /\ UseFallback(clr.fallback, tret.err)
       THEN /\ cret' = FallbackCall(clr.fallback)
            /\ fallbacks' = fallbacks + 1
       ELSE /\ cret' = tret
            /\ fallbacks' = fallbacks
    /\ UNCHANGED <<clr, counts, breakerVars, registryVars, retrierVars, timerVars, daemonVars>>

NextCaller ==
    \/ CallSync \/ CallStart \/ CallTime \/ CallTimeout
    \/ CallAdmit \/ CallReject \/ CallWorker \/ CallFallback

SpecCaller == InitCaller /\ [][NextCaller]_vars

(***************************************************************************)
(* errcat.Daemon.  Daemon.Call runs the callback through the Caller found  *)
(* under the key, under a recover, and, when the daemon is enabled, sends  *)
(* the record of the call on callCh.  callCh is made without a capacity:   *)
(* a send completes only together with a receive of consumeCalls.  The     *)
(* worker started by Start appends what it receives to its batch calls and *)
(* dispatches the batch with send when it holds bufferSize records, on     *)
(* every tick of its ticker and when the context is cancelled.  Records    *)
(* are numbered in the order the worker receives them.                     *)
(***************************************************************************)
bufferSize == 100

MaxCalls == 101    \* calls of Daemon.Call in one behaviour

DaemonProcs == {"c1"}
Workers == {"w1"}
DaemonKey == "google:search"

\* The zero Caller that d.registry[key] yields for a key that is not there,
\* and a Caller with a retrier.
ZeroCaller == [retrier |-> NilRetrier, fallback |-> NilFallback]
RetryingCaller ==
    [retrier |-> NewRetrier([maxAttempts |-> 2]), fallback |-> NilFallback]

\* The registries a Daemon is used with: RegisterCaller precedes the calls.
NoCallers == [k \in {} |-> ZeroCaller]
OneCaller == [k \in {DaemonKey} |-> RetryingCaller]
Lookup(reg, key) == IF key \in DOMAIN reg THEN reg[key] ELSE ZeroCaller

\* NewD(opts...): client is "none" without WithClient, host is addr.Host.
NewD(client, host, reg) ==
    [nil |-> FALSE, client |-> client, host |-> host, registry |-> reg,
     started |-> FALSE, cancelled |-> FALSE, crashed |-> FALSE]
NilDaemon ==
    [nil |-> TRUE, client |-> "none", host |-> "", registry |-> NoCallers,
     started |-> FALSE, cancelled |-> FALSE, crashed |-> FALSE]

\* return d.client != nil || d.addr.Host != ""
enabled(d) == d.client # "none" \/ d.host # ""

\* errcatapi.NewClient(addr): grpc.Dial(addr.Host, ...) is given no
\* WithBlock, so it does not connect: it hands back a connection for the
\* host, and NewClient a Client.
NewClient(host) == "dialed"

\* if d.client != nil { return d.client }; d.client, _ = NewClient(d.addr)
safeClient(d) ==
    IF d.client # "none" THEN d ELSE [d EXCEPT !.client = NewClient(d.host)]

\* Caller.Call without a timer and a breaker: the closure, then the fallback.
CallerCall(c, t) ==
    LET res == CallClosure(c, NilBreaker, t)
    IN  IF res.out.kind = "return" /\ UseFallback(c.fallback, res.out.err)
        THEN [out |-> FallbackCall(c.fallback), counts |-> res.counts]
        ELSE [out |-> res.out, counts |-> res.counts]

\* The callback does o at every invocation.
Always(o) == [i \in 1..MaxAttempts |-> o]

\* Daemon.Call up to the send on callCh: what it is about to return (or the
\* panic that leaves it) and how often cb was invoked.  On a nil Daemon it
\* is return cb(); otherwise a panic of caller.Call(cb) is recovered as
\* fmt.Errorf("%v", r).
DaemonCallResult(d, key, o) ==
    IF d.nil
    THEN [out |-> o, counts |-> 1]
    ELSE LET c == Lookup(d.registry, key)
             res == CallerCall([retrier |-> c.retrier, fallback |-> c.fallback,
                                outs |-> Always(o)], 0)
         IN  [out |-> IF res.out.kind = "panic"
                      THEN Returns(Errorf(res.out.val)) ELSE res.out,
              counts |-> res.counts]

Ids(calls) == {calls[i] : i \in DOMAIN calls}
Bump(f, ids) == [id \in DOMAIN f |-> IF id \in ids THEN f[id] + 1 ELSE f[id]]

\* Mutant: send without the test for an empty batch.
sendAlways(d, t, calls) ==
    LET d1 == safeClient(d)
    IN  [dmn |-> d1,
         tele |-> [t EXCEPT !.disp = Bump(@, Ids(calls)),
                            !.xmit = IF d1.client = "none" THEN @ ELSE Bump(@, Ids(calls)),
                            !.emptyXmit = @ \/ (d1.client # "none" /\ Len(calls) = 0)]]

\* d.send(calls): nothing for an empty batch; nothing without a client;
\* otherwise client.RecordCalls with the batch, whose error is only logged.
send(d, t, calls) ==
    IF Len(calls) = 0
    THEN [dmn |-> d, tele |-> t]
    ELSE LET d1 == safeClient(d)
         IN  [dmn |-> d1,
              tele |-> [t EXCEPT !.disp = Bump(@, Ids(calls)),
                                 !.xmit = IF d1.client = "none" THEN @
                                          ELSE Bump(@, Ids(calls))]]

Daemons ==
    {NilDaemon, NewD("injected", "", OneCaller)} \cup
    {NewD(c, h, NoCallers) : c \in {"none", "injected"}, h \in {"", "localhost:8000"}}

DaemonOutcomes == {Returns(Nil), Returns(UserErr("oops")), Panics("oops")}

IdleCall == [pc |-> "idle", o |-> Returns(Nil), ret |-> Returns(Nil), counts |-> 0]

\* A goroutine slot for consumeCalls: where the goroutine stands, the batch
\* it holds and the context whose Done channel its select waits on: the one
\* d.ctx holds ("current"), or one a later Start has replaced in d.ctx,
\* which had been cancelled by then ("cancelled") or which nothing can cancel
\* any more, its cancelFn being overwritten ("orphan").
NoWorker == [pc |-> "none", calls |-> <<>>, ctx |-> "current"]

\* case <-d.ctx.Done() is ready for worker w.
ctxDone(w) ==
    \/ wrk[w].ctx = "cancelled"
    \/ wrk[w].ctx = "current" /\ dmn.cancelled

InitDaemonVars(daemons, workers) ==
    /\ dmn \in daemons
    /\ dcall = [p \in DaemonProcs |-> IdleCall]
    /\ wrk = [w \in workers |-> NoWorker]
    /\ tele = [calls |-> 0, deq |-> 0,
               disp |-> [id \in 1..MaxCalls |-> 0],
               xmit |-> [id \in 1..MaxCalls |-> 0],
               emptyXmit |-> FALSE, flushes |-> 0]
    /\ b = NoValue /\ now = 0 /\ pc = NoValue /\ loc = NoValue
    /\ streak = 0 /\ openedAt = 0
    /\ RegistryUnused
    /\ RetrierUnused
    /\ TimerUnused
    /\ CallerUnused

InitDaemon == InitDaemonVars(Daemons, Workers)

\* Daemon.Call up to its deferred function's send: caller.Call(cb) has run
\* and err is set.  A disabled Daemon does not send and Call returns; on a
\* nil Daemon Call is cb() itself.
DaemonCallRun(p, o) ==
    /\ ~dmn.crashed
    /\ dcall[p].pc \in {"idle", "done"}
    /\ tele.calls < MaxCalls
    /\ LET res == DaemonCallResult(dmn, DaemonKey, o)
       IN  dcall' = [dcall EXCEPT ![p] =
                        [pc |-> IF ~dmn.nil /\ enabled(dmn) THEN "enqueue" ELSE "done",
                         o |-> o, ret |-> res.out, counts |-> res.counts]]
    /\ tele' = [tele EXCEPT !.calls = @ + 1]
    /\ UNCHANGED <<dmn, wrk>>

\* d.callCh <- call in Daemon.Call together with case call := <-d.callCh in
\* consumeCalls: Call returns, and the worker appends the record and, when
\* len(calls) == bufferSize, sends the batch and resets it.
DaemonCallSend(p, w) ==
    /\ ~dmn.crashed
    /\ dcall[p].pc = "enqueue"
    /\ wrk[w].pc = "run"
    /\ dcall' = [dcall EXCEPT ![p].pc = "done"]
    /\ LET id == tele.deq + 1
           calls == Append(wrk[w].calls, id)
           t1 == [tele EXCEPT !.deq = id]
       IN  IF Len(calls) = bufferSize
           THEN /\ dmn' = send(dmn, t1, calls).dmn
                /\ tele' = [send(dmn, t1, calls).tele EXCEPT !.flushes = @ + 1]
                /\ wrk' = [wrk EXCEPT ![w].calls = <<>>, ![w].ctx = "current"]
           ELSE /\ dmn' = dmn
                /\ tele' = t1
                /\ wrk' = [wrk EXCEPT ![w].calls = calls, ![w].ctx = "current"]

\* d.ctx, d.cancelFn = context.WithCancel(...); go d.consumeCalls().  The
\* new goroutine returns at once when the daemon is not enabled.  A worker
\* that is waiting in its select keeps the Done channel of the context
\* d.ctx held when it entered the select.  The domain of wrk bounds the
\* goroutines consumeCalls runs in.
DaemonStart(w) ==
    /\ ~dmn.nil
    /\ ~dmn.crashed
    /\ wrk[w].pc \in {"none", "exit"}
    /\ dmn' = [dmn EXCEPT !.started = TRUE, !.cancelled = FALSE]
    /\ wrk' = [v \in DOMAIN wrk |->
                 IF v = w
                 THEN [NoWorker EXCEPT !.pc = IF enabled(dmn) THEN "run" ELSE "exit"]
                 ELSE IF wrk[v].pc = "run" /\ wrk[v].ctx = "current"
                      THEN [wrk[v] EXCEPT
                              !.ctx = IF dmn.cancelled THEN "cancelled" ELSE "orphan"]
                      ELSE wrk[v]]
    /\ UNCHANGED <<dcall, tele>>

\* d.cancelFn().  Before the first Start cancelFn is nil and calling it
\* panics.
DaemonStop ==
    /\ ~dmn.nil
    /\ ~dmn.crashed
    /\ dmn' = IF dmn.started THEN [dmn EXCEPT !.cancelled = TRUE]
              ELSE [dmn EXCEPT !.crashed = TRUE]
    /\ UNCHANGED <<dcall, wrk, tele>>

\* case <-ticker.C: d.send(calls); calls = calls[:0], and the select is
\* entered again, with the Done channel of the context d.ctx holds now.
WorkerTick(w) ==
    /\ ~dmn.crashed
    /\ wrk[w].pc = "run"
    /\ dmn' = send(dmn, tele, wrk[w].calls).dmn
    /\ tele' = send(dmn, tele, wrk[w].calls).tele
    /\ wrk' = [wrk EXCEPT ![w].calls = <<>>, ![w].ctx = "current"]
    /\ UNCHANGED dcall

\* case <-d.ctx.Done(): d.send(calls); return
WorkerCancel(w) ==
    /\ ~dmn.crashed
    /\ wrk[w].pc = "run"
    /\ ctxDone(w)
    /\ dmn' = send(dmn, tele, wrk[w].calls).dmn
    /\ tele' = send(dmn, tele, wrk[w].calls).tele
    /\ wrk' = [wrk EXCEPT ![w] = [NoWorker EXCEPT !.pc = "exit"]]
    /\ UNCHANGED dcall

DaemonOthers ==
    UNCHANGED <<breakerVars, registryVars, retrierVars, timerVars, callerVars>>

DCall == (\E p \in DaemonProcs, o \in DaemonOutcomes : DaemonCallRun(p, o)) /\ DaemonOthers
DSend == (\E p \in DaemonProcs, w \in Workers : DaemonCallSend(p, w)) /\ DaemonOthers
DStart == (\E w \in Workers : DaemonStart(w)) /\ DaemonOthers
DStop == DaemonStop /\ DaemonOthers
DTick == (\E w \in Workers : WorkerTick(w)) /\ DaemonOthers
DCancel == (\E w \in Workers : WorkerCancel(w)) /\ DaemonOthers

NextDaemon == DCall \/ DSend \/ DStart \/ DStop \/ DTick \/ DCancel

\* A send on callCh and a receive that are both ready take place, the ticker
\* keeps ticking and a worker whose context is cancelled gets to see it;
\* nothing obliges the program to call Start, Stop or Call.
SpecDaemon ==
    /\ InitDaemon
    /\ [][NextDaemon]_vars
    /\ WF_vars(DSend) /\ WF_vars(DTick) /\ WF_vars(DCancel)

(***************************************************************************)
(* The life cycle of the Daemon: Start and Stop called in any order and    *)
(* any number of times, with room for two consumeCalls goroutines and no   *)
(* Daemon.Call.                                                            *)
(***************************************************************************)
LifeWorkers == {"w1", "w2"}

InitLifecycle == InitDaemonVars(Daemons, LifeWorkers)

LStart == (\E w \in LifeWorkers : DaemonStart(w)) /\ DaemonOthers
LTick == (\E w \in LifeWorkers : WorkerTick(w)) /\ DaemonOthers
LCancel == (\E w \in LifeWorkers : WorkerCancel(w)) /\ DaemonOthers

NextLifecycle == LStart \/ DStop \/ LTick \/ LCancel

\* The tickers keep ticking and a worker whose select has a cancelled
\* context gets to see it.
SpecLifecycle ==
    /\ InitLifecycle
    /\ [][NextLifecycle]_vars
    /\ \A w \in LifeWorkers :
          /\ WF_vars(WorkerTick(w) /\ DaemonOthers)
          /\ WF_vars(WorkerCancel(w) /\ DaemonOthers)

(***************************************************************************)
(* Constructors given zero values.  b is a Breaker built with options      *)
(* whose values are zero or nil and loc.b one built without options; both  *)
(* are given the same callbacks at the same clock values by one goroutine. *)
(***************************************************************************)
MaxClock == 61     \* the clock of the breakers built from zero values

NoOptions == [k \in {} |-> 0]

\* Every choice of options among WithIsFailure(nil), WithMaxFailures(0),
\* WithMaxHalfOpenRequests(0) and WithTimeout(0).
ZeroOptions ==
    {[k \in ks |-> IF k = "isFailure" THEN "nil" ELSE 0] :
        ks \in SUBSET {"isFailure", "maxFailures", "maxRequests", "timeout"}}

InitDefaults ==
    /\ b \in {New(opts) : opts \in ZeroOptions}
    /\ loc = [b |-> New(NoOptions), out |-> Returns(Nil), zout |-> Returns(Nil),
              status |-> Closed]
    /\ now = 0
    /\ pc = NoValue
    /\ streak = 0
    /\ openedAt = 0
    /\ RegistryUnused
    /\ RetrierUnused
    /\ TimerUnused
    /\ CallerUnused
    /\ DaemonUnused

\* b.Run(cb) and, on the breaker built without options, the same call.
DefaultsRun(o) ==
    LET z == Run(b, o, now)
        d == Run(loc.b, o, now)
        failed == z.counts = 1 /\ IsFailing(b, z.out.err)
    IN  /\ b' = z.b
        /\ loc' = [b |-> d.b, out |-> d.out, zout |-> z.out,
                   status |-> Status(b.state, now)]
        /\ streak' = IF z.b.state.status # Closed \/ ~failed THEN 0 ELSE streak + 1
        /\ openedAt' = IF failed /\ z.b.state.status = Open THEN now ELSE openedAt
        /\ UNCHANGED <<now, pc, registryVars, retrierVars, timerVars, callerVars,
                       daemonVars>>

DefaultsTick ==
    /\ now < MaxClock
    /\ now' = now + 1
    /\ UNCHANGED <<b, pc, loc, streak, openedAt, registryVars, retrierVars,
                   timerVars, callerVars, daemonVars>>

DefaultsCall == \E o \in Outcomes : DefaultsRun(o)

NextDefaults == DefaultsCall \/ DefaultsTick

SpecDefaults == InitDefaults /\ [][NextDefaults]_vars

(***************************************************************************)
(* Properties of the breaker, the registry, the retrier, the timer and the  *)
(* caller, with the helpers they are stated with.                          *)
(***************************************************************************)
\* The goroutines whose callback was admitted as a half-open probe and has
\* not returned yet.
HalfOpenRunning == {p \in Procs : pc[p] = "cb" /\ loc[p].status = HalfOpen}

\* Goroutine p takes a step of Breaker.Run from the label at.
Steps(p, at) == pc[p] = at /\ <<pc'[p], loc'[p]>> # <<pc[p], loc[p]>>

(***************************************************************************)
(* C1: with max_failures = N and calls made one after another, after       *)
(* k < N failing calls in a row the breaker is still Closed and Failures   *)
(* = k; the N-th failing call in a row stores Open and returns the         *)
(* operation's own error, not ErrBreakerOpen.                              *)
(***************************************************************************)
C1_ClosedCounting ==
    LET l == loc[SeqProc]
    IN  pc[SeqProc] = "idle" =>
          /\ streak <= b.maxFailures
          /\ b.state.status = Closed =>
               /\ streak < b.maxFailures
               /\ b.state.Failures = streak
               /\ Status(b.state, now) = Closed
          /\ (l.returned /\ l.counts = 1 /\ streak = b.maxFailures) =>
               /\ b.state.status = Open
               /\ l.ret = l.err
               /\ l.ret # ErrBreakerOpen
               /\ IsFailing(b, l.ret)

C1_Witness ==
    /\ pc[SeqProc] = "idle"
    /\ loc[SeqProc].returned
    /\ b.maxFailures = defaultMaxFailures
    /\ streak = defaultMaxFailures
    /\ b.state.status = Open
    /\ loc[SeqProc].ret = Errorf("oops")

(***************************************************************************)
(* C2: a Run that finds the breaker observed Open (stored Open and         *)
(* now < expiresAt) returns ErrBreakerOpen, has not invoked the callback   *)
(* and leaves the breaker as it was.                                       *)
(***************************************************************************)
C2_OpenRejects ==
    [][\A p \in Procs :
         (Steps(p, "idle") /\ b.state.status = Open /\ now < b.state.expiresAt) =>
            /\ pc'[p] = "idle"
            /\ loc'[p].returned
            /\ loc'[p].ret = ErrBreakerOpen
            /\ loc'[p].counts = 0
            /\ b' = b]_vars

C2_Witness ==
    \E p \in Procs :
      /\ pc[p] = "idle"
      /\ loc[p].returned
      /\ loc[p].status = Open
      /\ loc[p].ret = ErrBreakerOpen
      /\ loc[p].counts = 0
      /\ b.state.status = Open
      /\ now < b.state.expiresAt

(***************************************************************************)
(* C3: at most max_half_open_requests callbacks admitted as half-open      *)
(* probes are running at the same time.                                    *)
(***************************************************************************)
C3_HalfOpenCap == Cardinality(HalfOpenRunning) <= b.maxRequests

(***************************************************************************)
(* C4: a breaker that stored Open at clock value t with timeout T is       *)
(* observed Open at every clock value < t + T and HalfOpen at every clock  *)
(* value >= t + T (t + T itself included); a stored Closed is observed     *)
(* Closed; HalfOpen is never stored.                                       *)
(***************************************************************************)
C4_ObservedStatus ==
    /\ b.state.status \in {Closed, Open}
    /\ b.state.status = Closed => \A t \in 0..(MaxNow + 1) : Status(b.state, t) = Closed
    /\ b.state.status = Open =>
         \A t \in 0..(2 * MaxNow + MaxOption) :
            /\ t < openedAt + b.timeout => Status(b.state, t) = Open
            /\ t >= openedAt + b.timeout => Status(b.state, t) = HalfOpen

C4_Witness ==
    /\ b.state.status = Open
    /\ now = openedAt + b.timeout
    /\ Status(b.state, now) = HalfOpen
    /\ \A p \in Procs : pc[p] = "idle"

(***************************************************************************)
(* C5: when the outcome of a call admitted as a half-open probe is         *)
(* accounted while the breaker is observed HalfOpen: a failure stores Open *)
(* with expiresAt = now + timeout and resets Failures, Successes and       *)
(* requests; any other outcome adds one to Successes, and the breaker      *)
(* becomes Closed exactly when Successes reaches max_half_open_requests    *)
(* (otherwise it stays observed HalfOpen).                                 *)
(***************************************************************************)
C5_HalfOpenOutcome ==
    [][\A p \in Procs :
         (/\ Steps(p, "handleError")
          /\ loc[p].status = HalfOpen
          /\ b.state.status = Open /\ b.state.expiresAt <= now) =>
            IF IsFailing(b, loc[p].err)
            THEN /\ b'.state = [status |-> Open, expiresAt |-> now + b.timeout,
                                Failures |-> 0, Successes |-> 0]
                 /\ b'.requests = 0
            ELSE IF b.state.Successes + 1 = b.maxRequests
                 THEN /\ b'.state.status = Closed
                      /\ b'.state.Failures = 0 /\ b'.state.Successes = 0
                      /\ b'.requests = 0
                 ELSE /\ b'.state = [b.state EXCEPT !.Successes = @ + 1]
                      /\ b'.state.Successes < b.maxRequests
                      /\ Status(b'.state, now) = HalfOpen
                      /\ b'.requests = b.requests]_vars

C5_Witness ==
    \E p \in Procs :
      /\ pc[p] = "idle"
      /\ loc[p].returned
      /\ loc[p].status = HalfOpen
      /\ loc[p].counts = 1
      /\ loc[p].ret = UserErr("oops")
      /\ b.maxRequests = 2
      /\ b.state.status = Open
      /\ now > 0
      /\ b.state.expiresAt = now + b.timeout

(***************************************************************************)
(* C6: call sites that got a breaker from the Registry under the same name *)
(* hold one shared breaker: what one site's calls record is the state the  *)
(* other site's breaker has.                                               *)
(***************************************************************************)
C6_SharedBreaker ==
    \A s1 \in Sites, s2 \in Sites :
       (got[s1].ok /\ got[s2].ok /\ got[s1].name = got[s2].name) =>
          got[s1].b.state = got[s2].b.state

(***************************************************************************)
(* C7: a non-nil Retrier with max_attempts = N invokes a callback that     *)
(* returns a retriable error at every attempt exactly N times and returns  *)
(* the last error; it invokes a callback that first returns nil at attempt *)
(* k <= N (all earlier errors retriable) exactly k times and returns nil;  *)
(* it never makes more than N attempts.                                    *)
(***************************************************************************)
\* The k-th invocation returns a non-nil error that r's isRetriable accepts.
RetriableAt(r, outs, k) ==
    /\ outs[k].kind = "return"
    /\ outs[k].err # Nil
    /\ ApplyIsRetriable(r.isRetriable, outs[k].err)

C7_RetrierBudget ==
    (rout # NoValue /\ rin.r # NilRetrier) =>
       LET r == rin.r
           outs == rin.outs
           N == r.maxAttempts
       IN  /\ rout.counts <= N
           /\ (\A k \in 1..N : RetriableAt(r, outs, k)) =>
                 rout.counts = N /\ rout.out = Returns(outs[N].err)
           /\ \A k \in 1..N :
                 (outs[k] = Returns(Nil) /\ \A j \in 1..(k - 1) : RetriableAt(r, outs, j)) =>
                    rout.counts = k /\ rout.out = Returns(Nil)

C7_Witness ==
    /\ rout # NoValue
    /\ rin.r # NilRetrier
    /\ rin.r.maxAttempts = MaxAttempts
    /\ \A k \in 1..MaxAttempts : rin.outs[k] = Returns(UserErr("oops"))
    /\ rout.counts = MaxAttempts
    /\ rout.out = Returns(UserErr("oops"))

(***************************************************************************)
(* C8: the first attempt whose error isRetriable rejects is the last one:  *)
(* Retrier.Run returns that error and does not invoke the callback again,  *)
(* also when attempts remain.                                              *)
(***************************************************************************)
C8_NonRetriableStops ==
    (rout # NoValue /\ rin.r # NilRetrier) =>
       LET r == rin.r
           outs == rin.outs
       IN  \A k \in 1..r.maxAttempts :
              (/\ outs[k].kind = "return"
               /\ outs[k].err # Nil
               /\ ~ApplyIsRetriable(r.isRetriable, outs[k].err)
               /\ \A j \in 1..(k - 1) : RetriableAt(r, outs, j)) =>
                 rout.counts = k /\ rout.out = Returns(outs[k].err)

C8_Witness ==
    /\ rout # NoValue
    /\ rin.r # NilRetrier
    /\ rin.r.maxAttempts = MaxAttempts
    /\ rin.outs[1] = Returns(UserErr("oops"))
    /\ rin.outs[2] = Returns(UserErr("perm err"))
    /\ rout.counts = 2
    /\ rout.out = Returns(UserErr("perm err"))

(***************************************************************************)
(* C9: with a positive duration, Timer.Run returns the callback's own      *)
(* result (nil or its error) when the callback ends strictly before the    *)
(* deadline; when the deadline comes first it returns ErrTimeout without   *)
(* waiting for the callback, and so it returns even if the callback never  *)
(* ends.                                                                   *)
(***************************************************************************)
C9_TimerResult ==
    (~tmr.nil /\ tmr.duration > 0 /\ mpc = "done") =>
       /\ (hist.done /\ ~hist.late /\ hist.at < tmr.duration /\ hist.o.kind = "return") =>
             tret = Returns(hist.o.err)
       /\ (~hist.done \/ hist.late) => tret = Returns(ErrTimeout)
       /\ tret = Returns(ErrTimeout) => elapsed = tmr.duration

C9_TimerSemantics ==
    /\ []C9_TimerResult
    /\ (mpc = "select") ~> (mpc = "done")

C9_Witness ==
    /\ ~tmr.nil
    /\ tmr.duration = MaxDuration
    /\ mpc = "done"
    /\ tret = Returns(ErrTimeout)
    /\ wpc = "cb"

(***************************************************************************)
(* C10: when Caller.Call has returned, its breaker was Closed when the     *)
(* call entered it, the callback returned at each of the first N           *)
(* invocations an error the retrier (maxAttempts = N) retries, the timer   *)
(* did not expire and the fallback has the default predicate, then the     *)
(* callback was invoked exactly N times, the fallback function exactly     *)
(* once, and Call returned what the fallback function returned.            *)
(***************************************************************************)
ErrorsEveryAttempt ==
    /\ clr.retrier # NilRetrier
    /\ \A i \in 1..clr.retrier.maxAttempts :
          /\ OutcomeAt(clr.outs, i).kind = "return"
          /\ OutcomeAt(clr.outs, i).err # Nil
          /\ ApplyIsRetriable(clr.retrier.isRetriable, OutcomeAt(clr.outs, i).err)

AlwaysFails ==
    \A i \in 1..MaxAttempts :
        clr.outs[i].kind = "return" /\ clr.outs[i].err # Nil

C11_BreakerWrapsRetries ==
    [][/\ (loc'.taken /\ loc'.status = Open) => counts' = 0
       /\ (/\ counts' # counts
           /\ b # NilBreaker
           /\ loc'.status = Closed
           /\ AlwaysFails)
          => \/ /\ b'.state.status = Closed
                /\ b'.state.Failures = b.state.Failures + 1
                /\ b'.state.Failures < b.maxFailures
             \/ /\ b'.state.status = Open
                /\ b.state.Failures + 1 >= b.maxFailures]_vars

C11_Witness ==
    /\ cret # NoValue
    /\ b # NilBreaker /\ loc.taken /\ loc.status = Closed
    /\ AlwaysFails
    /\ clr.retrier # NilRetrier
    /\ counts = MaxAttempts
    /\ b.state.status = Closed
    /\ b.state.Failures = 1

(***************************************************************************)
(* C12: when Caller.Call has returned, the fallback function was invoked   *)
(* if and only if the error that came out of the timer, the breaker and    *)
(* the retrier is not nil and UseFallback accepts it, and then Call        *)
(* returns the fallback function's result; after a nil error the fallback  *)
(* function was not invoked, and without a fallback Call returns the       *)
(* error unchanged.                                                        *)
(***************************************************************************)
C12_FallbackOnFailureOnly ==
    (cret # NoValue /\ tret.kind = "return") =>
       /\ fallbacks \in {0, 1}
       /\ fallbacks = 1 <=> (tret.err # Nil /\ UseFallback(clr.fallback, tret.err))
       /\ fallbacks = 1 => cret = FallbackCall(clr.fallback)
       /\ tret.err = Nil => (fallbacks = 0 /\ cret = tret)
       /\ clr.fallback.nil => cret = tret

(***************************************************************************)
(* C13: a panic of the callback never leaves Retrier.Run or Caller.Call:   *)
(* when the callback panicked, the call returns a non-nil error whose      *)
(* message is the panic value.                                             *)
(***************************************************************************)
C13_PanicSafety ==
    /\ rout # NoValue =>
          /\ rout.out.kind = "return"
          /\ OutcomeAt(rin.outs, rout.counts).kind = "panic" =>
                /\ rout.out.err # Nil
                /\ rout.out.err.msg = OutcomeAt(rin.outs, rout.counts).val
    /\ cret # NoValue => cret.kind = "return"

(***************************************************************************)
(* C14: a nil handle passes the call through.  Retrier.Run, Breaker.Run    *)
(* and Daemon.Call on a nil receiver invoke the callback once and end as   *)
(* it ends; a nil Fallback answers UseFallback with false and Call with    *)
(* nil; Timer.Run on a nil Timer runs the callback on the caller's         *)
(* goroutine and ends as it ends; and Caller.Call on a Caller without      *)
(* breaker, retrier, timer and fallback invokes the callback once and ends *)
(* as it ends.                                                             *)
(***************************************************************************)
NoPrimitives ==
    /\ b = NilBreaker /\ clr.retrier = NilRetrier /\ tmr.nil /\ clr.fallback.nil

C14_NilPassThrough ==
    /\ \A outs \in CallerScripts :
          RetrierRun(NilRetrier, outs) = [out |-> outs[1], counts |-> 1]
    /\ \A o \in CallerOutcomes, t \in 0..MaxNow :
          Run(NilBreaker, o, t) = [b |-> NilBreaker, out |-> o, counts |-> 1]
    /\ \A o \in CallerOutcomes :
          DaemonCallResult(NilDaemon, DaemonKey, o) = [out |-> o, counts |-> 1]
    /\ \A o \in CallerOutcomes : ~UseFallback(NilFallback, o.err)
    /\ FallbackCall(NilFallback) = Returns(Nil)
    /\ (tmr.nil /\ mpc = "done" /\ b = NilBreaker /\ clr.retrier = NilRetrier) =>
          /\ tret = clr.outs[1]
          /\ counts = 1
          /\ wpc = "none"
    /\ (NoPrimitives /\ cret # NoValue) =>
          /\ counts = 1
          /\ fallbacks = 0
          /\ cret = clr.outs[1]

C14_Witness ==
    /\ NoPrimitives
    /\ counts = 1
    /\ tret = Returns(UserErr("oops"))
    /\ cret = Returns(UserErr("oops"))

(***************************************************************************)
(* C15: constructors given zero or nil option values build what they build *)
(* without options.  Such a Breaker and one built without options stay     *)
(* equal and return the same under the same calls; it opens at the 5th     *)
(* consecutive failure and not before, is observed HalfOpen from 60 clock  *)
(* units after it opened, and closes at the first half-open success.  Such *)
(* a Retrier makes exactly 1 attempt, and a Fallback built from a nil      *)
(* function and a nil predicate falls back on every non-nil error and its  *)
(* Call returns nil.                                                       *)
(***************************************************************************)
C15_Equal ==
    /\ b = loc.b
    /\ loc.zout = loc.out
    /\ b.state.status = Closed => (b.state.Failures = streak /\ streak < 5)
    /\ b.state.status = Open =>
          (Status(b.state, now) = HalfOpen <=> now >= openedAt + 60)
    /\ NewRetrier([isRetriable |-> "nil", maxAttempts |-> 0]) = NewRetrier(NoOptions)
    /\ \A outs \in CallerScripts :
          outs[1] = Returns(UserErr("oops")) =>
             RetrierRun(NewRetrier([isRetriable |-> "nil", maxAttempts |-> 0]), outs)
                = [out |-> outs[1], counts |-> 1]
    /\ \A o \in CallerOutcomes :
          UseFallback(NewFallback(NilFn, [useFallback |-> "nil"]), o.err) <=> o.err # Nil
    /\ FallbackCall(NewFallback(NilFn, [useFallback |-> "nil"])) = Returns(Nil)

C15_Steps ==
    /\ (streak = 4 /\ streak' = 0 /\ b.state.status = Closed /\ loc'.zout.err # Nil)
          => b'.state.status = Open
    /\ (b' # b /\ loc'.status = HalfOpen /\ loc'.zout.err = Nil)
          => b'.state.status = Closed

C15_ZeroOptionDefaults == []C15_Equal /\ [][C15_Steps]_vars

C15_Witness ==
    /\ b.state.status = Closed
    /\ loc.status = HalfOpen
    /\ loc.zout = Returns(Nil)
    /\ openedAt = 0
    /\ now = 60

(***************************************************************************)
(* C16: the worker's batch never holds bufferSize = 100 records after a    *)
(* step: the receive that makes it 100 dispatches it and resets it, and    *)
(* any other receive only appends.  A tick and a cancellation dispatch the *)
(* batch the worker holds, the tick resets it and the cancellation ends    *)
(* the worker.  Every record the worker has received is in its batch or    *)
(* was dispatched, and transmitted to the client, exactly once; nothing is *)
(* transmitted for an empty batch.                                         *)
(***************************************************************************)
C16_Records ==
    \A w \in Workers :
        LET calls == wrk[w].calls
        IN  /\ Len(calls) < 100
            /\ \A i \in DOMAIN calls : calls[i] = tele.deq - Len(calls) + i
            /\ \A id \in 1..tele.deq :
                  /\ tele.xmit[id] = tele.disp[id]
                  /\ tele.disp[id] = (IF id > tele.deq - Len(calls) THEN 0 ELSE 1)
            /\ \A id \in (tele.deq + 1)..MaxCalls :
                  tele.disp[id] = 0 /\ tele.xmit[id] = 0
            /\ ~tele.emptyXmit
            /\ wrk[w].pc # "run" => calls = <<>>

C16_Steps ==
    \A w \in Workers :
        LET calls == wrk[w].calls
        IN  /\ (tele'.deq = tele.deq + 1 /\ Len(calls) + 1 = 100) =>
                  /\ wrk'[w].calls = <<>>
                  /\ tele'.disp = Bump(tele.disp, Ids(calls) \cup {tele'.deq})
            /\ (tele'.deq = tele.deq + 1 /\ Len(calls) + 1 # 100) =>
                  /\ wrk'[w].calls = Append(calls, tele'.deq)
                  /\ tele'.disp = tele.disp
            /\ (tele'.deq = tele.deq /\ (wrk' # wrk \/ tele'.disp # tele.disp)
                   /\ wrk[w].pc = "run") =>
                  /\ wrk'[w].calls = <<>>
                  /\ tele'.disp = Bump(tele.disp, Ids(calls))
                  /\ wrk'[w].pc = "exit" => dmn.cancelled

C17_ChannelHolds100 ==
    \A p \in DaemonProcs :
        (dcall[p].pc = "enqueue" /\ tele.calls - 1 - tele.deq < 100) =>
            ENABLED (\E w \in Workers : DaemonCallSend(p, w) /\ DaemonOthers)

(***************************************************************************)
(* C18: the telemetry path never affects what Daemon.Call returns.  On an  *)
(* enabled Daemon, started or not, stopped or not, a Daemon.Call whose     *)
(* operation has returned and that has its record to send returns to its   *)
(* caller, and what it returns is what caller.Call(cb) gave (the           *)
(* operation's own error, or the error made of its panic, when no Caller   *)
(* is registered for the key).  A program that the panic of Stop before    *)
(* Start has ended is left aside.                                          *)
(***************************************************************************)
C18_OwnError ==
    \A p \in DaemonProcs :
        (dcall[p].pc \in {"enqueue", "done"} /\ ~dmn.nil /\ enabled(dmn)) =>
            /\ dcall[p].ret = DaemonCallResult(dmn, DaemonKey, dcall[p].o).out
            /\ dmn.registry = NoCallers =>
                   dcall[p].ret = IF dcall[p].o.kind = "panic"
                                  THEN Returns(Errorf(dcall[p].o.val))
                                  ELSE dcall[p].o

C18_TelemetryNeverBlocksCall ==
    /\ []C18_OwnError
    /\ \A p \in DaemonProcs :
          (dcall[p].pc = "enqueue") ~> (dcall[p].pc = "done" \/ dmn.crashed)

(***************************************************************************)
(* C19: Register on a name already present returns an error and leaves the *)
(* Registry as it was, so that Get still yields the Breaker registered     *)
(* first; Register on an absent name returns nil and Get then finds the    *)
(* name; Get on a name never registered reports that it is not there.      *)
(***************************************************************************)
C19_Get ==
    /\ \A n \in Names :
          /\ Get(registry, n).ok <=> n \in DOMAIN registry
          /\ n \in DOMAIN registry => Get(registry, n).b = registry[n]
    /\ \A s \in Sites : got[s].ok => got[s].name \in DOMAIN registry
    /\ regErr # Nil => registry # NewRegistry

C19_Steps ==
    /\ \A n \in DOMAIN registry :
          n \in DOMAIN registry' /\ Get(registry', n).b = Get(registry, n).b
    /\ registry' # registry =>
          /\ regErr' = Nil
          /\ \E n \in Names \ DOMAIN registry :
                /\ DOMAIN registry' = DOMAIN registry \cup {n}
                /\ Get(registry', n).ok
                /\ Get(registry', n).b \in RegistryBreakers
    /\ (regErr' # Nil /\ regErr' # regErr) =>
          /\ registry' = registry
          /\ \E n \in DOMAIN registry : regErr' = RegisterErr(registry, n)
    /\ \A s \in Sites :
          (got'[s] # got[s] /\ ~got'[s].ok) => got'[s].name \notin DOMAIN registry

C19_RegisterDuplicate == []C19_Get /\ [][C19_Steps]_vars

C19_Witness ==
    /\ regErr # Nil
    /\ DOMAIN registry = {"mysql"}
    /\ got["s1"].ok /\ got["s1"].name = "mysql"
    /\ ~got["s2"].ok /\ got["s2"].name = "google"

(***************************************************************************)
(* C20: Run on a nil Timer or on one whose duration is not positive calls  *)
(* the callback once on the caller's goroutine, and Run returns a panic of *)
(* the callback as an error whose message is the panic value's string      *)
(* form; so does Run with a positive duration when the callback panics     *)
(* before the deadline.  The panic never leaves Run.                       *)
(***************************************************************************)
C20_TimerCapturesPanic ==
    (/\ mpc = "done"
     /\ hist.done /\ ~hist.late
     /\ hist.o.kind = "panic"
     /\ TimerDisabled(tmr) \/ hist.at < tmr.duration) =>
        /\ tret.kind = "return"
        /\ tret.err.msg = hist.o.val

(***************************************************************************)
(* C21: a panic of a callback Breaker.Run admitted is accounted like a     *)
(* returned failure.  At the accounting of a call whose callback panicked  *)
(* with value v: a breaker that is Closed counts one more failure, and     *)
(* opens when that makes maxFailures; a breaker that is HalfOpen is moved  *)
(* to Open; and Run returns an error whose message is v.                   *)
(***************************************************************************)
C21_Steps ==
    \A p \in Procs :
        (pc[p] = "handleError" /\ pc'[p] = "idle" /\ loc[p].o.kind = "panic") =>
            /\ loc'[p].returned
            /\ loc'[p].ret # Nil
            /\ loc'[p].ret.msg = loc[p].o.val
            /\ b' = handleError(b, loc[p].state, UserErr(loc[p].o.val), now)
            /\ Status(b.state, now) = Closed =>
                  IF b.state.Failures + 1 >= b.maxFailures
                  THEN /\ b'.state.status = Open
                       /\ b'.state.expiresAt = now + b.timeout
                  ELSE /\ b'.state.status = Closed
                       /\ b'.state.Failures = b.state.Failures + 1
            /\ Status(b.state, now) = HalfOpen =>
                  /\ b'.state.status = Open
                  /\ b'.state.expiresAt = now + b.timeout

C22_Steps ==
    \A p \in Procs :
        (/\ pc[p] = "handleError" /\ pc'[p] = "idle"
         /\ b.state.status = Closed
         /\ ~IsFailing(b, loc[p].err)) =>
            /\ loc'[p].ret = loc[p].o.err
            /\ b'.state.Failures <= b.state.Failures
            /\ b'.state.Failures = 0

C22_NonFailureResets == [][C22_Steps]_vars

(***************************************************************************)
(* C23: a call Breaker.Run rejects, because it observed Open or because it *)
(* observed HalfOpen with requests at maxRequests, returns ErrBreakerOpen  *)
(* without invoking the callback and leaves the stored status, expiresAt,  *)
(* Failures, Successes and requests as they were.                          *)
(***************************************************************************)
C23_Steps ==
    \A p \in Procs :
        (/\ pc[p] \in {"idle", "canMake"} /\ pc'[p] = "idle"
         /\ \A q \in Procs \ {p} : pc'[q] = pc[q] /\ loc'[q] = loc[q]
         /\ now' = now) =>
            /\ loc'[p].returned /\ loc'[p].ret = ErrBreakerOpen
            /\ loc'[p].counts = 0
            /\ b'.state = b.state
            /\ b'.requests = b.requests

C23_RejectionChangesNothing == [][C23_Steps]_vars

C23_Witness ==
    \E p \in Procs :
        /\ pc[p] = "idle"
        /\ loc[p].returned /\ loc[p].ret = ErrBreakerOpen
        /\ loc[p].status = HalfOpen
        /\ b.requests = b.maxRequests
        /\ b.state.status = Open /\ b.state.expiresAt <= now

(***************************************************************************)
(* C24: every step that changes the stored status (Closed to Open, Open    *)
(* observed HalfOpen to Closed) or that enters Open again from HalfOpen    *)
(* sets requests, Failures and Successes to 0, and every entry into Open   *)
(* sets expiresAt to the clock value of the step plus timeout.             *)
(***************************************************************************)
C24_Steps ==
    LET entersOpen == /\ b'.state.status = Open
                      /\ b.state.status # Open \/ b'.state.expiresAt # b.state.expiresAt
    IN  /\ (b'.state.status # b.state.status \/ entersOpen) =>
              /\ b'.requests = 0
              /\ b'.state.Failures = 0
              /\ b'.state.Successes = 0
        /\ entersOpen => b'.state.expiresAt = now + b.timeout
        /\ (b.state.status = Open /\ b'.state.status = Open /\ ~entersOpen) =>
              b'.state.expiresAt = b.state.expiresAt

C24_TransitionsReset == [][C24_Steps]_vars

C24_Witness ==
    \E p \in Procs :
        /\ loc[p].returned /\ loc[p].status = HalfOpen /\ loc[p].ret = Nil
        /\ b.maxRequests = MaxOption
        /\ b.state = ZeroState /\ b.requests = 0
        /\ now > 0

(***************************************************************************)
(* C25: ErrBreakerOpen and ErrTimeout are never counted as failures of the *)
(* breaker nor retried inside Caller.Call.  A rejection and a timeout      *)
(* leave the breaker as it is and invoke no callback; after a timeout the  *)
(* breaker is changed only by the accounting of what the operation itself  *)
(* ends with, so that a late nil adds no failure; Failures grows and Open  *)
(* is stored only when the operation's own error is a failure; and the     *)
(* callback is invoked no more often than the retrier does on the          *)
(* operation's own errors, none of which is a sentinel.                    *)
(***************************************************************************)
OwnResult == safeRun(RetrierRun(clr.retrier, clr.outs).out)

C25_Steps ==
    /\ (hist'.done /\ ~hist.done /\ hist'.o = Returns(ErrBreakerOpen)) =>
          b' = b /\ counts' = counts
    /\ (tret' = Returns(ErrTimeout) /\ tret # tret') =>
          b' = b /\ counts' = counts
    /\ (b # NilBreaker /\ tret = Returns(ErrTimeout) /\ b'.state # b.state) =>
          /\ hist'.done /\ hist'.late
          /\ b' = handleError(b, loc.state, OwnResult, now)
    /\ (b # NilBreaker /\ b'.state.Failures > b.state.Failures) =>
          IsFailing(b, OwnResult)
    /\ (b # NilBreaker /\ b'.state # b.state /\ b'.state.status = Open) =>
          IsFailing(b, OwnResult)
    /\ counts' <= RetrierRun(clr.retrier, clr.outs).counts
    /\ \A i \in 1..counts' :
          OutcomeAt(clr.outs, i).err \notin {ErrBreakerOpen, ErrTimeout}

C25_SentinelsNotCounted == [][C25_Steps]_vars

C25_Witness ==
    /\ mpc = "done" /\ tret = Returns(ErrTimeout)
    /\ hist.done /\ hist.late /\ hist.o = Returns(Nil)
    /\ b # NilBreaker /\ loc.taken
    /\ b.maxFailures = 1
    /\ b.state = ZeroState
    /\ counts > 0

(***************************************************************************)
(* C26: after any sequence of Start and Stop (Start twice, Start right     *)
(* after Stop) at most one consumeCalls goroutine is reading callCh, and a *)
(* worker whose context Stop has cancelled eventually returns.             *)
(***************************************************************************)
C26_OneReader ==
    Cardinality({w \in DOMAIN wrk : wrk[w].pc = "run"}) <= 1

C26_SoleWorker ==
    /\ []C26_OneReader
    /\ \A w \in LifeWorkers :
          (wrk[w].pc = "run" /\ ctxDone(w)) ~> (wrk[w].pc # "run")

(***************************************************************************)
(* C27: the breaker is never wedged.  With goroutines that keep calling    *)
(* Run and callbacks that all end, once the stored status is Open and the  *)
(* timeout has elapsed some call is let through to its callback: requests  *)
(* never stays at maxRequests with no call in flight, every call being     *)
(* rejected with ErrBreakerOpen from then on.                              *)
(***************************************************************************)
C27_NeverWedged ==
    (b.state.status = Open /\ b.state.expiresAt <= now) ~>
        (\E p \in Procs : pc[p] \in {"cb", "handleError"})

(***************************************************************************)
(* C28: an outcome is accounted in the state its call was admitted in.     *)
(* The late outcome of a call admitted while Closed, accounted when Open   *)
(* is stored, is no half-open success and neither opens the breaker again  *)
(* nor closes it; and the breaker goes from HalfOpen to Closed only by the *)
(* accounting of a call admitted as a half-open probe that did not fail    *)
(* and that makes Successes equal to maxRequests.                          *)
(***************************************************************************)
C28_Steps ==
    /\ \A p \in Procs :
          (/\ pc[p] = "handleError" /\ pc'[p] = "idle"
           /\ loc[p].status = Closed
           /\ b.state.status = Open) => b'.state = b.state
    /\ (b.state.status = Open /\ b'.state.status = Closed) =>
          \E p \in Procs :
              /\ pc[p] = "handleError" /\ pc'[p] = "idle"
              /\ loc[p].status = HalfOpen
              /\ ~IsFailing(b, loc[p].err)
              /\ b.state.Successes + 1 = b.maxRequests

C28_AccountedWhereAdmitted == [][C28_Steps]_vars

(***************************************************************************)
(* C29: in every reachable state of the breaker, while Closed is stored    *)
(* Failures < maxFailures, Successes = 0 and requests = 0; while Open is   *)
(* stored Failures = 0 and Successes < maxRequests; requests never exceeds *)
(* maxRequests; and the stored status is Closed or Open, never HalfOpen.   *)
(***************************************************************************)
C29_Counters ==
    /\ b.state.status = Open =>
          /\ b.state.Failures = 0
          /\ b.state.Successes < b.maxRequests
    /\ b.requests <= b.maxRequests
    /\ b.state.status \in {Closed, Open}

C29_BreakerInvariants ==
    /\ b.state.status = Closed =>
          /\ b.state.Failures < b.maxFailures
          /\ b.state.Successes = 0
          /\ b.requests = 0
    /\ C29_Counters

(***************************************************************************)
(* C30: every worker goroutine Timer.Run starts ends once its callback has *)
(* returned or panicked, also when Run has returned ErrTimeout by then:    *)
(* the late result is dropped and no worker stays blocked handing it over. *)
(***************************************************************************)
C30_WorkersTerminate ==
    (wpc = "send" \/ bg.blocked > 0) ~> (wpc # "send" /\ bg.blocked = 0)

====
